---- MODULE Spec2Model ----
(***************************************************************************)
(* SheetQueryBuilder (src/src/index.ts): a query builder over a sheet      *)
(* whose row 1 is the header and whose data starts at row 2.               *)
(*                                                                         *)
(* The builder's fields are the variables columnNames, sheetName, whereFn, *)
(* _sheet, _sheetValues and _sheetHeadings.  The spreadsheet service it talks to   *)
(* is the variable sheets (table name -> sequence of rows, row 1 first)    *)
(* together with padsReads, which says how the service answers a block     *)
(* read that extends past the last row.  op, calls, ret and err record the *)
(* last builder call: its name, the service calls it made in order, the    *)
(* value it returned and whether it threw; arg is what the call was given, *)
(* pre the tables and the builder's fields as they were when it began.     *)
(***************************************************************************)
EXTENDS Integers, Sequences, FiniteSets, TLC

VARIABLES sheets, padsReads, columnNames, sheetName, whereFn, _sheet,
          _sheetValues, _sheetHeadings, op, arg, pre, calls, ret, err

vars == <<sheets, padsReads, columnNames, sheetName, whereFn, _sheet,
          _sheetValues, _sheetHeadings, op, arg, pre, calls, ret, err>>

(***************************************************************************)
(* Bounds of the model.                                                    *)
(***************************************************************************)
\* Data rows of the queried table in the initial state.
MaxData == 4
\* Records passed to one insertRows call.
MaxInsert == 2
\* Data rows of each table in the initial state of the runs over two tables.
MaxOther == 1
\* The write or delete of a batch that the service fails, counted from 1; also
\* the data rows of the initial table in the runs with failing writes.
MaxFail == 2

(***************************************************************************)
(* Cell values.  A cell without content reads as the empty string.         *)
(***************************************************************************)
Blank == ""
\* JavaScript values that are not cell contents of the initial tables.
Undefined == "undefined"
Zero == "0n"
False == "false"
Falsy == {Blank, Zero, False, Undefined}
CellValues == {Blank, "p", "q"}

Min(a, b) == IF a < b THEN a ELSE b
Max(a, b) == IF a > b THEN a ELSE b

(***************************************************************************)
(* Row records: a JavaScript object with the own property __meta and one   *)
(* property per heading, in insertion order.                               *)
(***************************************************************************)
NewRowObject(r, numCols) ==
    [hasMeta |-> TRUE, row |-> r, cols |-> numCols, keys |-> <<>>, vals |-> <<>>]

HasKey(obj, k) == \E i \in 1..Len(obj.keys) : obj.keys[i] = k

KeyIndex(obj, k) == CHOOSE i \in 1..Len(obj.keys) : obj.keys[i] = k

\* obj[k] = v: an existing property keeps its place, a new one goes last.
SetField(obj, k, v) ==
    IF HasKey(obj, k)
    THEN [obj EXCEPT !.vals[KeyIndex(obj, k)] = v]
    ELSE [obj EXCEPT !.keys = Append(@, k), !.vals = Append(@, v)]

\* obj[k]
GetField(obj, k) == IF HasKey(obj, k) THEN obj.vals[KeyIndex(obj, k)] ELSE Undefined

\* delete obj.__meta
DeleteMeta(obj) == [obj EXCEPT !.hasMeta = FALSE, !.row = 0, !.cols = 0]

\* Object.values(obj) of an object whose __meta was deleted.
ObjectValues(obj) == obj.vals

(***************************************************************************)
(* The spreadsheet service.  A table is a sequence of rows of equal width; *)
(* row 1 is the header.                                                    *)
(***************************************************************************)
NoSheet == "null"
TableNames == {"T1"}

getLastRow(t) == Len(t)
getLastColumn(t) == Len(t[1])

BlankRow(numCols) == [c \in 1..numCols |-> Blank]

\* The cells of row r, columns 1..numCols; no content reads as Blank.
RowCells(t, r, numCols) ==
    [c \in 1..numCols |->
        IF r <= Len(t) /\ c <= Len(t[r]) THEN t[r][c] ELSE Blank]

\* sheet.getSheetValues(startRow, 1, numRows, numCols).  A service that pads
\* returns numRows rows, blank past the last row; one that does not clips the
\* block at the last row.
getSheetValues(t, startRow, numRows, numCols, pads) ==
    LET n == IF pads THEN numRows
             ELSE Max(0, Min(numRows, Len(t) - startRow + 1))
    IN  [i \in 1..n |-> RowCells(t, startRow + i - 1, numCols)]

\* range.deleteCells(ROWS) on the one-row range at row r: the rows below move up.
deleteCells(t, r) ==
    IF r > Len(t) THEN t
    ELSE [i \in 1..(Len(t) - 1) |-> IF i < r THEN t[i] ELSE t[i + 1]]

\* range.setValues([values]) on the one-row range at row r.  Blank cells
\* written past the last row leave the table without content there.
setValues(t, r, values) ==
    LET numCols == getLastColumn(t)
        grown == [i \in 1..Max(Len(t), r) |->
                     IF i <= Len(t) THEN t[i] ELSE BlankRow(numCols)]
    IN  IF r > Len(t) /\ \A c \in 1..Len(values) : values[c] = Blank
        THEN t
        ELSE [grown EXCEPT ![r] =
                 [c \in 1..numCols |-> IF c <= Len(values) THEN values[c] ELSE @[c]]]

\* sheet.appendRow(values)
appendRow(t, values) == Append(t, values)

Call(fn, r, n, values) == [fn |-> fn, row |-> r, n |-> n, vals |-> values]

(***************************************************************************)
(* The builder's methods, as functions of the machine m: the service's     *)
(* tables, the builder's cached fields, the service calls made so far, the *)
(* value to return and whether an exception is propagating.  fail = n > 0  *)
(* says that the service throws on the n-th write or delete of the call.   *)
(***************************************************************************)
Machine ==
    [sheets |-> sheets, sheet |-> _sheet, values |-> _sheetValues,
     headings |-> _sheetHeadings, calls |-> <<>>, ret |-> <<>>, err |-> FALSE,
     fail |-> 0]

NotLoaded == [loaded |-> FALSE, rows |-> <<>>]
Loaded(rows) == [loaded |-> TRUE, rows |-> rows]

Log(m, c) == [m EXCEPT !.calls = Append(@, c)]
Throw(m) == [m EXCEPT !.err = TRUE]

\* The writes and deletes the call has made so far.
Writes(m) == Len(SelectSeq(m.calls, LAMBDA c : c.fn \in {"setValues", "deleteCells"}))

\* The write or delete the call is about to make is the one the service fails.
Fails(m) == m.fail = Writes(m) + 1

\* activeSpreadsheet.getSheetByName(name): the table, or null.
getSheetByName(name) == IF name \in DOMAIN sheets THEN name ELSE NoSheet

\* getSheet that looks the current name up on every call.
getSheetByCurrentName(m) ==
    [Log(m, Call("getSheetByName", 0, 0, <<>>)) EXCEPT
        !.sheet = getSheetByName(sheetName)]

getSheet(m) ==
    IF m.sheet = NoSheet
    THEN [Log(m, Call("getSheetByName", 0, 0, <<>>)) EXCEPT
             !.sheet = getSheetByName(sheetName)]
    ELSE m

getHeadings(m) ==
    IF Len(m.headings) = 0
    THEN LET m1 == getSheet(m)
         IN  IF m1.sheet = NoSheet THEN Throw(m1)
             ELSE LET t == m1.sheets[m1.sheet]
                      numCols == getLastColumn(t)
                      block == getSheetValues(t, 1, 1, numCols, padsReads)
                  IN  [Log(m1, Call("getSheetValues", 1, 1, <<>>)) EXCEPT
                          !.headings = block[1]]
    ELSE m

\* The inner loop of getValues: obj[headings[c]] = sheetValues[r][c].
RECURSIVE FillRow(_, _, _, _, _)
FillRow(obj, headings, cells, c, numCols) ==
    IF c >= numCols THEN obj
    ELSE FillRow(SetField(obj,
                          IF c + 1 <= Len(headings) THEN headings[c + 1] ELSE Undefined,
                          cells[c + 1]),
                 headings, cells, c + 1, numCols)

\* RowObject with the columns of the projection list alone, when there is one.
RowObjectProjected(r, numCols, headings, cells) ==
    LET all == FillRow(NewRowObject(r + 2, numCols), headings, cells, 0, numCols)
        kept == SelectSeq([i \in 1..Len(all.keys) |-> i],
                          LAMBDA i : \E j \in 1..Len(columnNames) :
                                        columnNames[j] = all.keys[i])
    IN  IF columnNames = <<>> THEN all
        ELSE [all EXCEPT !.keys = [i \in 1..Len(kept) |-> all.keys[kept[i]]],
                         !.vals = [i \in 1..Len(kept) |-> all.vals[kept[i]]]]

\* RowObject with the position one too small.
RowObjectOffByOne(r, numCols, headings, cells) ==
    FillRow(NewRowObject(r + 1, numCols), headings, cells, 0, numCols)

\* The record getValues builds from row r (0-based) of the block it read.
RowObject(r, numCols, headings, cells) ==
    FillRow(NewRowObject(r + 2, numCols), headings, cells, 0, numCols)

\* Absent whatever is cached: every call loads.
AbsentAlways(values) == TRUE

\* Absent, also when the loaded sequence is empty.
AbsentOrEmpty(values) == ~values.loaded \/ Len(values.rows) = 0

\* !this._sheetValues: null is falsy, an array (empty too) is truthy.
Absent(values) == ~values.loaded

\* The number of rows getValues asks the service for.
BlockRows(t) == getLastRow(t)

getValues(m) ==
    IF Absent(m.values)
    THEN LET m1 == getSheet(m)
         IN  IF m1.sheet = NoSheet THEN Throw(m1)
             ELSE LET t == m1.sheets[m1.sheet]
                      numCols == getLastColumn(t)
                      sheetValues == getSheetValues(t, 2, BlockRows(t), numCols, padsReads)
                      numRows == Len(sheetValues)
                      m2 == getHeadings(Log(m1, Call("getSheetValues", 2, BlockRows(t), <<>>)))
                      rowValues == [r \in 1..numRows |->
                                       RowObject(r - 1, numCols, m2.headings, sheetValues[r])]
                  IN  [m2 EXCEPT !.values = Loaded(rowValues), !.ret = rowValues]
    ELSE [m EXCEPT !.ret = m.values.rows]

(***************************************************************************)
(* Filter predicates and Array.prototype.filter.                           *)
(***************************************************************************)
NoFn == [kind |-> "none", rows |-> {}, key |-> "", val |-> ""]
RowsFn(S) == [kind |-> "rows", rows |-> S, key |-> "", val |-> ""]
FieldFn(k, v) == [kind |-> "field", rows |-> {}, key |-> k, val |-> v]

\* fn(row) reads row.__meta.row of a record without __meta: a TypeError.
TestThrows(fn, row) == fn.kind = "rows" /\ ~row.hasMeta

\* fn(row)
Test(fn, row) ==
    IF fn.kind = "rows" THEN row.row \in fn.rows
    ELSE GetField(row, fn.key) = fn.val

\* The indices of the rows that pass fn, ascending.
RECURSIVE FilterIdx(_, _, _)
FilterIdx(rows, fn, i) ==
    IF i > Len(rows) THEN <<>>
    ELSE IF Test(fn, rows[i])
         THEN <<i>> \o FilterIdx(rows, fn, i + 1)
         ELSE FilterIdx(rows, fn, i + 1)

\* The indices into the cache of the rows getRows returns.
Matched(rows, fn) ==
    IF fn.kind # "none" THEN FilterIdx(rows, fn, 1) ELSE [i \in 1..Len(rows) |-> i]

\* rows.filter(fn)
Filter(rows, fn) ==
    LET idx == FilterIdx(rows, fn, 1) IN [j \in 1..Len(idx) |-> rows[idx[j]]]

\* getRows without the filter.
getRowsUnfiltered(m) == getValues(m)

getRows(m) ==
    LET m1 == getValues(m)
    IN  IF m1.err THEN m1
        ELSE IF \E i \in 1..Len(m1.values.rows) : TestThrows(whereFn, m1.values.rows[i])
        THEN [Throw(m1) EXCEPT !.ret = <<>>]
        ELSE [m1 EXCEPT !.ret =
                 IF whereFn.kind # "none" THEN Filter(m1.values.rows, whereFn)
                 ELSE m1.values.rows]

\* clearCache that leaves the heading list and does not flush.
clearCacheValuesOnly(m) == [m EXCEPT !.values = NotLoaded]

clearCache(m) ==
    [Log(m, Call("flush", 0, 0, <<>>)) EXCEPT
        !.values = NotLoaded, !.headings = <<>>]

\* DeleteStep without the running correction: deletes at the recorded position.
DeleteStepUncorrected(m, row, i) ==
    [Log(m, Call("deleteCells", row.row, 1, <<>>)) EXCEPT
        !.sheets[m.sheet] = deleteCells(@, row.row)]

\* The body of deleteRows' forEach, for the i-th matched row (i from 0).
\* row.__meta.row of a record without __meta is a TypeError.
DeleteStep(m, row, i) ==
    IF ~row.hasMeta \/ Fails(m) THEN Throw(m)
    ELSE [Log(m, Call("deleteCells", row.row - i, 1, <<>>)) EXCEPT
             !.sheets[m.sheet] = deleteCells(@, row.row - i)]

\* forEach: an exception ends the loop.
RECURSIVE DeleteLoop(_, _, _)
DeleteLoop(m, rows, i) ==
    IF Len(rows) = 0 \/ m.err THEN m
    ELSE DeleteLoop(DeleteStep(m, Head(rows), i), Tail(rows), i + 1)

deleteRows(m) ==
    LET m1 == getRows(m)
        m2 == DeleteLoop(m1, m1.ret, 0)
    IN  IF m1.err THEN m1
        ELSE IF m2.err THEN [m2 EXCEPT !.ret = <<>>]
        ELSE [clearCache(m2) EXCEPT !.ret = <<>>]

(***************************************************************************)
(* Update functions: what updateFn does to the row it is given and what it *)
(* returns.                                                                *)
(***************************************************************************)
ReturnsUndefined == [kind |-> "undefined", key |-> "", val |-> ""]
ReturnsPlain(k, v) == [kind |-> "plain", key |-> k, val |-> v]
SetsField(k, v) == [kind |-> "set", key |-> k, val |-> v]
ReturnsCopy(k, v) == [kind |-> "copy", key |-> k, val |-> v]

\* The row after updateFn(row) ran: "set" assigns row[key] = val in place.
RowAfter(u, row) == IF u.kind = "set" THEN SetField(row, u.key, u.val) ELSE row

\* updateFn(row): undefined, a fresh object {key: val} without __meta, the row,
\* or the copy {...row, key: val}.
Returned(u, row) ==
    IF u.kind = "undefined" THEN [defined |-> FALSE, obj |-> row]
    ELSE IF u.kind = "plain"
         THEN [defined |-> TRUE,
               obj |-> SetField(DeleteMeta(NewRowObject(0, 0)), u.key, u.val)]
         ELSE IF u.kind = "copy"
              THEN [defined |-> TRUE, obj |-> SetField(row, u.key, u.val)]
              ELSE [defined |-> TRUE, obj |-> RowAfter(u, row)]

\* The cells updateRows writes for a row: Object.values of the returned record
\* when it carries __meta, else of the row itself, __meta deleted.
ArrayValues(u, row) ==
    LET updatedRow == Returned(u, row)
    IN  IF updatedRow.defined /\ updatedRow.obj.hasMeta
        THEN ObjectValues(DeleteMeta(updatedRow.obj))
        ELSE ObjectValues(DeleteMeta(RowAfter(u, row)))

\* The cached record after the body ran on it: delete updatedRow.__meta or
\* delete row.__meta took its __meta, unless updatedRow is another object
\* that has a __meta of its own.
RowKept(u, row) == IF u.kind = "copy" THEN row ELSE DeleteMeta(RowAfter(u, row))

\* The body of updateRows' forEach for the cached row at index i.
\* row.__meta.row of a record without __meta is a TypeError.
UpdateStep(m, i, u) ==
    LET row == m.values.rows[i]
        arrayValues == ArrayValues(u, row)
        m1 == [m EXCEPT !.values.rows[i] = RowKept(u, row)]
    IN  IF ~row.hasMeta THEN Throw(m)
        ELSE IF Fails(m) THEN Throw(m1)
        ELSE [Log(m1, Call("setValues", row.row, 1, arrayValues)) EXCEPT
                 !.sheets[m.sheet] = setValues(@, row.row, arrayValues)]

\* forEach: an exception ends the loop.
RECURSIVE UpdateLoop(_, _, _)
UpdateLoop(m, idx, u) ==
    IF Len(idx) = 0 \/ m.err THEN m
    ELSE UpdateLoop(UpdateStep(m, Head(idx), u), Tail(idx), u)

updateRows(m, u) ==
    LET m1 == getRows(m)
        m2 == UpdateLoop(m1, Matched(m1.values.rows, whereFn), u)
    IN  IF m1.err THEN m1
        ELSE IF m2.err THEN [m2 EXCEPT !.ret = <<>>]
        ELSE [clearCache(m2) EXCEPT !.ret = <<>>]

(***************************************************************************)
(* insertRows.                                                             *)
(***************************************************************************)
\* Only a missing key gives the placeholder.
CellForMissingOnly(row, heading) ==
    IF HasKey(row, heading) THEN GetField(row, heading) ELSE Blank

\* row[heading] ? row[heading] : ''
CellFor(row, heading) ==
    IF GetField(row, heading) \notin Falsy THEN GetField(row, heading) ELSE Blank

\* headings.map(heading => ...)
InsertValues(row, headings) ==
    [c \in 1..Len(headings) |-> CellFor(row, headings[c])]

InsertStep(m, row) ==
    LET rowValues == InsertValues(row, m.headings)
    IN  [Log(m, Call("appendRow", 0, 1, rowValues)) EXCEPT
            !.sheets[m.sheet] = appendRow(@, rowValues)]

RECURSIVE InsertLoop(_, _)
InsertLoop(m, newRows) ==
    IF Len(newRows) = 0 THEN m
    ELSE InsertLoop(InsertStep(m, Head(newRows)), Tail(newRows))

insertRows(m, newRows) ==
    LET m1 == getHeadings(getSheet(m))
    IN  IF m1.err THEN m1
        ELSE InsertLoop(m1, newRows)

(***************************************************************************)
(* Inputs.                                                                 *)
(***************************************************************************)
Header == <<"A", "B">>
DataRows == {<<Blank, "q">>, <<"p", "q">>}

\* The tables of the initial state: the header and up to MaxData data rows.
InitTables ==
    UNION {{<<Header>> \o d : d \in [1..n -> DataRows]} : n \in 0..MaxData}

WhereFns == {RowsFn({2, 4})} \cup {FieldFn("A", v) : v \in {Blank, "p"}}

UpdateFns == {ReturnsUndefined, ReturnsPlain("A", "p"), SetsField("A", "p")}

Dict(keys, values) ==
    [hasMeta |-> FALSE, row |-> 0, cols |-> 0, keys |-> keys, vals |-> values]

NewRowPool ==
    {Dict(<<"B", "A">>, <<"q", "p">>), Dict(<<"A", "B", "C">>, <<Zero, "q", "p">>)}

NewRowLists == UNION {[1..n -> NewRowPool] : n \in 0..MaxInsert}

\* Records for the placeholder policy: a key in another place than its column,
\* a missing key, the falsy values 0, false and '', a key that is no heading.
PlaceholderPool ==
    {Dict(<<"B", "A">>, <<"q", "p">>), Dict(<<"B">>, <<"q">>),
     Dict(<<"A", "B", "C">>, <<Zero, "q", "p">>), Dict(<<"A", "B">>, <<False, "q">>),
     Dict(<<"A", "B">>, <<Blank, "q">>)}

PlaceholderLists == UNION {[1..n -> PlaceholderPool] : n \in 0..MaxInsert}

\* The argument of select: one column name, or an array of them.
OneName(name) == [isArray |-> FALSE, name |-> name, names |-> <<>>]
NameArray(names) == [isArray |-> TRUE, name |-> "", names |-> names]

NoArg ==
    [newRows |-> <<>>, updateFn |-> ReturnsUndefined, fn |-> NoFn, fail |-> 0,
     columns |-> NameArray(<<>>)]

(***************************************************************************)
(* The state machine: one action per public method.                        *)
(***************************************************************************)
\* The builder after construction, over the tables of the spreadsheet.
Constructed ==
    /\ padsReads \in BOOLEAN
    /\ columnNames = <<>>
    /\ sheetName = Undefined
    /\ whereFn = NoFn
    /\ _sheet = NoSheet
    /\ _sheetValues = NotLoaded
    /\ _sheetHeadings = <<>>
    /\ op = "new"
    /\ arg = NoArg
    /\ pre = [sheets |-> sheets, sheet |-> NoSheet, values |-> NotLoaded,
              headings |-> <<>>, whereFn |-> NoFn, sheetName |-> Undefined,
              columnNames |-> <<>>]
    /\ calls = <<>>
    /\ ret = <<>>
    /\ err = FALSE

Init ==
    /\ sheets \in [TableNames -> InitTables]
    /\ Constructed

\* The tables and the builder's fields as a call finds them.
Before ==
    [sheets |-> sheets, sheet |-> _sheet, values |-> _sheetValues,
     headings |-> _sheetHeadings, whereFn |-> whereFn, sheetName |-> sheetName,
     columnNames |-> columnNames]

\* The state a terminal method called with a leaves behind.
FinishWith(name, a, m) ==
    /\ sheets' = m.sheets
    /\ _sheet' = m.sheet
    /\ _sheetValues' = m.values
    /\ _sheetHeadings' = m.headings
    /\ op' = name
    /\ arg' = a
    /\ pre' = Before
    /\ calls' = m.calls
    /\ ret' = m.ret
    /\ err' = m.err
    /\ UNCHANGED <<padsReads, columnNames, sheetName, whereFn>>

Finish(name, m) == FinishWith(name, NoArg, m)

\* The state a configuring method called with a leaves behind.
Chained(name, a) ==
    /\ op' = name
    /\ arg' = a
    /\ pre' = Before
    /\ calls' = <<>>
    /\ ret' = <<>>
    /\ err' = FALSE
    /\ UNCHANGED <<sheets, padsReads, _sheet, _sheetValues, _sheetHeadings>>

From(name) ==
    /\ sheetName' = name
    /\ UNCHANGED <<columnNames, whereFn>>
    /\ Chained("from", NoArg)

\* Array.isArray(columnNames) ? columnNames : [columnNames]
select(c) == IF c.isArray THEN c.names ELSE <<c.name>>

Select(c) ==
    /\ columnNames' = select(c)
    /\ UNCHANGED <<sheetName, whereFn>>
    /\ Chained("select", [NoArg EXCEPT !.columns = c])

\* A where that keeps the predicate stored first: this.whereFn = this.whereFn || fn
whereOnce(old, fn) == IF old.kind = "none" THEN fn ELSE old

\* this.whereFn = fn
where(old, fn) == fn

Where(fn) ==
    /\ whereFn' = where(whereFn, fn)
    /\ UNCHANGED <<columnNames, sheetName>>
    /\ Chained("where", [NoArg EXCEPT !.fn = fn])

GetSheet == Finish("getSheet", getSheet(Machine))

GetHeadings == Finish("getHeadings", getHeadings(Machine))

GetValues == Finish("getValues", getValues(Machine))

GetRows == Finish("getRows", getRows(Machine))

DeleteRows == Finish("deleteRows", deleteRows(Machine))

\* A table holds at most MaxData data rows: a call that can add rows is not
\* taken where it could exceed that.
Room(n) == \A name \in DOMAIN sheets : Len(sheets[name]) + n <= MaxData + 1

UpdateRows(u) ==
    /\ Room(1)
    /\ FinishWith("updateRows", [NoArg EXCEPT !.updateFn = u], updateRows(Machine, u))

InsertRows(newRows) ==
    /\ Room(Len(newRows))
    /\ FinishWith("insertRows", [NoArg EXCEPT !.newRows = newRows],
                  insertRows(Machine, newRows))

ClearCache == Finish("clearCache", clearCache(Machine))

Next ==
    \/ \E name \in TableNames : From(name)
    \/ \E fn \in WhereFns : Where(fn)
    \/ GetSheet
    \/ GetHeadings
    \/ GetValues
    \/ GetRows
    \/ DeleteRows
    \/ \E u \in UpdateFns : UpdateRows(u)
    \/ \E newRows \in NewRowLists : InsertRows(newRows)
    \/ ClearCache

Spec == Init /\ [][Next]_vars

\* The builder used for inserts alone, over every record of PlaceholderPool.
NextInsert ==
    \/ \E name \in TableNames : From(name)
    \/ GetValues
    \/ \E newRows \in PlaceholderLists : InsertRows(newRows)

SpecInsert == Init /\ [][NextInsert]_vars

(***************************************************************************)
(* A spreadsheet with two tables, and names that resolve to neither.       *)
(***************************************************************************)
OtherNames == {"T1", "T2"}
FromNames == OtherNames \cup {"Nope"}

OtherTables ==
    UNION {{<<Header>> \o d : d \in [1..n -> DataRows]} : n \in 0..MaxOther}

InitNames ==
    /\ sheets \in [OtherNames -> OtherTables]
    /\ Constructed

\* The tables of these runs hold at most MaxOther + 1 data rows.
RoomOther(n) == \A name \in DOMAIN sheets : Len(sheets[name]) + n <= MaxOther + 2

NextNames ==
    \/ \E name \in FromNames : From(name)
    \/ GetSheet
    \/ GetHeadings
    \/ GetValues
    \/ GetRows
    \/ DeleteRows
    \/ RoomOther(1) /\ UpdateRows(SetsField("A", "p"))
    \/ RoomOther(1) /\ InsertRows(<<Dict(<<"B">>, <<"q">>)>>)
    \/ ClearCache

SpecNames == InitNames /\ [][NextNames]_vars

(***************************************************************************)
(* Batches during which a write or a delete of the service throws.         *)
(***************************************************************************)
FailTables ==
    UNION {{<<Header>> \o d : d \in [1..n -> DataRows]} : n \in 0..MaxFail}

InitFail ==
    /\ sheets \in [TableNames -> FailTables]
    /\ Constructed

\* deleteRows() during which the n-th deleteCells throws.
DeleteRowsFailing(n) ==
    FinishWith("deleteRows", [NoArg EXCEPT !.fail = n],
               deleteRows([Machine EXCEPT !.fail = n]))

\* updateRows(u) during which the n-th setValues throws.
UpdateRowsFailing(u, n) ==
    FinishWith("updateRows", [NoArg EXCEPT !.updateFn = u, !.fail = n],
               updateRows([Machine EXCEPT !.fail = n], u))

FailWhereFns == {FieldFn("A", "p"), RowsFn({2, 3})}
FailUpdateFns == {ReturnsUndefined, SetsField("A", "p"), ReturnsCopy("A", "p")}

\* The table of these runs holds at most MaxFail + 1 data rows: a call that
\* can add rows, or write at the positions of a cache that is longer, is not
\* taken.
RoomFail(n) ==
    /\ \A name \in DOMAIN sheets : Len(sheets[name]) + n <= MaxFail + 2
    /\ Len(_sheetValues.rows) <= MaxFail + 1

NextFail ==
    \/ \E name \in TableNames : From(name)
    \/ \E fn \in FailWhereFns : Where(fn)
    \/ GetValues
    \/ GetRows
    \/ DeleteRows
    \/ \E n \in 1..MaxFail : DeleteRowsFailing(n)
    \/ \E u \in FailUpdateFns : RoomFail(1) /\ UpdateRows(u)
    \/ \E u \in FailUpdateFns : \E n \in 1..MaxFail :
          RoomFail(1) /\ UpdateRowsFailing(u, n)

SpecFail == InitFail /\ [][NextFail]_vars

(***************************************************************************)
(* The builder with a projection list.                                     *)
(***************************************************************************)
\* One name, an array, a name that is no heading, the empty array.
Projections ==
    {OneName("A"), NameArray(<<"B", "A">>), NameArray(<<"Z">>), NameArray(<<>>)}

NextSelect ==
    \/ \E name \in TableNames : From(name)
    \/ \E c \in Projections : Select(c)
    \/ Where(FieldFn("A", "p"))
    \/ GetHeadings
    \/ GetValues
    \/ GetRows
    \/ DeleteRows
    \/ RoomFail(1) /\ UpdateRows(SetsField("B", Blank))
    \/ RoomFail(1) /\ InsertRows(<<Dict(<<"A">>, <<"p">>)>>)

SpecSelect == InitFail /\ [][NextSelect]_vars

(***************************************************************************)
(* Another client of the spreadsheet inserts or deletes a row of the table *)
(* between two calls on the builder.                                       *)
(***************************************************************************)
\* The state a step of the other client leaves: the builder is not touched.
Elsewhere(t) ==
    /\ sheets' = [sheets EXCEPT !["T1"] = t]
    /\ op' = "external"
    /\ arg' = NoArg
    /\ pre' = Before
    /\ calls' = <<>>
    /\ ret' = <<>>
    /\ err' = FALSE
    /\ UNCHANGED <<padsReads, columnNames, sheetName, whereFn, _sheet, _sheetValues,
                   _sheetHeadings>>

\* A row with the given cells is inserted at position r; the rows from r on
\* move down.
ExternalInsert(r, cells) ==
    LET t == sheets["T1"]
    IN  /\ r \in 2..(Len(t) + 1)
        /\ Elsewhere(SubSeq(t, 1, r - 1) \o <<cells>> \o SubSeq(t, r, Len(t)))

\* The row at position r is deleted; the rows below move up.
ExternalDelete(r) ==
    LET t == sheets["T1"]
    IN  /\ r \in 2..Len(t)
        /\ Elsewhere(deleteCells(t, r))

InitExternal ==
    /\ sheets \in [TableNames -> OtherTables]
    /\ Constructed

\* The table of these runs holds at most MaxOther + 1 data rows: a call that
\* can add rows, or write at the positions of a cache that is longer, is not
\* taken.
RoomExternal(n) ==
    /\ RoomOther(n)
    /\ Len(_sheetValues.rows) <= MaxOther + 1

NextExternal ==
    \/ \E name \in TableNames : From(name)
    \/ Where(FieldFn("A", "p"))
    \/ GetValues
    \/ DeleteRows
    \/ RoomExternal(1) /\ UpdateRows(SetsField("B", Blank))
    \/ \E r \in 2..(MaxOther + 2) : \E cells \in DataRows :
          RoomExternal(1) /\ ExternalInsert(r, cells)
    \/ \E r \in 2..(MaxOther + 2) : ExternalDelete(r)

SpecExternal == InitExternal /\ [][NextExternal]_vars

(***************************************************************************)
(* Vocabulary of the properties.                                           *)
(***************************************************************************)
\* The calls of cs to the service function fn, in order.
CallsOf(cs, fn) == SelectSeq(cs, LAMBDA c : c.fn = fn)

\* The number of reads of the data block (the block that starts at row 2).
DataReads(cs) == Len(SelectSeq(cs, LAMBDA c : c.fn = "getSheetValues" /\ c.row = 2))

\* The rows the calls of cs target, in order.
TargetRows(cs) == [k \in 1..Len(cs) |-> cs[k].row]

\* The terminal operations, those among them that change the table, and the
\* service calls that change a table.
Terminal ==
    {"getSheet", "getHeadings", "getValues", "getRows", "insertRows", "updateRows",
     "deleteRows"}
Mutating == {"insertRows", "updateRows", "deleteRows"}
Changes(cs) ==
    SelectSeq(cs, LAMBDA c : c.fn \in {"setValues", "appendRow", "deleteCells"})

\* The table t after the writes and deletes among the calls cs.
RECURSIVE Replay(_, _)
Replay(t, cs) ==
    IF Len(cs) = 0 THEN t
    ELSE LET c == Head(cs)
         IN  Replay(CASE c.fn = "deleteCells" -> deleteCells(t, c.row)
                      [] c.fn = "setValues" -> setValues(t, c.row, c.vals)
                      [] c.fn = "appendRow" -> appendRow(t, c.vals)
                      [] OTHER -> t,
                    Tail(cs))

\* The queried table when the last call returned, and when it began.
Table == sheets[_sheet]
PreTable == pre.sheets[_sheet]

\* The predicate fn decided on the cells of row r of table t.
Selected(fn, t, r) ==
    CASE fn.kind = "none" -> TRUE
      [] fn.kind = "rows" -> r \in fn.rows
      [] OTHER -> \E c \in 1..Len(t[1]) : t[1][c] = fn.key /\ t[r][c] = fn.val

\* The data rows of t that fn does not select, in table order.
Unmatched(t, fn) ==
    LET idx == SelectSeq([i \in 1..(Len(t) - 1) |-> i + 1],
                         LAMBDA r : ~Selected(fn, t, r))
    IN  [j \in 1..Len(idx) |-> t[idx[j]]]

\* The records a load of the tables ss gives.
LoadOf(ss) ==
    getValues([Machine EXCEPT !.sheets = ss, !.values = NotLoaded,
                              !.headings = <<>>]).values.rows

\* When the last call began the row cache was absent, or held what a load of
\* the table as it then was gives.
PreFresh == ~pre.values.loaded \/ pre.values.rows = LoadOf(pre.sheets)

\* The rows getRows gave the last call: the cached rows, loaded if absent, that
\* the predicate selects.
PreMatched == getRows([Machine EXCEPT !.sheets = pre.sheets, !.values = pre.values]).ret

(***************************************************************************)
(* C1: deleteRows() on a builder whose row cache is fresh leaves the       *)
(* header row unchanged and leaves as data rows exactly the rows the       *)
(* predicate does not select, in their original order; with no predicate   *)
(* no data row remains.                                                    *)
(***************************************************************************)
C1_DeleteLeavesUnmatched ==
    (op = "deleteRows" /\ ~err /\ PreFresh)
        => Table = <<PreTable[1]>> \o Unmatched(PreTable, whereFn)

\* deleteRows loaded the cache itself, deleted two rows or more and kept some.
C1_Witness ==
    /\ op = "deleteRows" /\ ~err /\ PreFresh
    /\ DataReads(calls) = 1
    /\ Len(CallsOf(calls, "deleteCells")) >= 2
    /\ Len(Table) >= 3

(***************************************************************************)
(* C2: deleteRows() issues one single-row delete per matched row, in cache *)
(* order, the k-th (from 0) at the row's recorded position minus k.        *)
(***************************************************************************)
C2_DeletePositions ==
    (op = "deleteRows" /\ ~err)
        => LET dels == CallsOf(calls, "deleteCells")
               rows == PreMatched
           IN  /\ Len(dels) = Len(rows)
               /\ \A k \in 1..Len(dels) :
                     dels[k].row = rows[k].row - (k - 1) /\ dels[k].n = 1

\* Data rows at 2, 3, 4, 5, the filter selects positions 2 and 4: the deletes
\* went to 2 and then 3.
C2_Witness ==
    /\ op = "deleteRows" /\ ~err
    /\ Len(PreTable) = 5
    /\ whereFn = RowsFn({2, 4})
    /\ TargetRows(CallsOf(calls, "deleteCells")) = <<2, 3>>

(***************************************************************************)
(* C3: getValues() on an unloaded cache returns one record per data row:   *)
(* lastRow - 1 records, none for a table that has only the header row.     *)
(***************************************************************************)
C3_OneRecordPerDataRow ==
    (op = "getValues" /\ ~err /\ ~pre.values.loaded)
        => Len(ret) = getLastRow(Table) - 1

(***************************************************************************)
(* C4: the record getValues() builds from row r (0-based) of the block it  *)
(* read carries __meta {row: r + 2, cols: last column} and, under the      *)
(* heading of column c + 1, the cell at row r + 2, column c + 1.           *)
(***************************************************************************)
C4_RecordsMirrorCells ==
    (op = "getValues" /\ ~err /\ ~pre.values.loaded)
        => LET numCols == getLastColumn(Table)
           IN  \A r \in 0..(Len(ret) - 1) :
                  /\ ret[r + 1].hasMeta
                  /\ ret[r + 1].row = r + 2
                  /\ ret[r + 1].cols = numCols
                  /\ \A c \in 0..(numCols - 1) :
                        GetField(ret[r + 1], _sheetHeadings[c + 1])
                            = IF r + 2 <= Len(Table) THEN Table[r + 2][c + 1] ELSE Blank

\* Headings [A, B] and the one data row [p, q] gave {A: p, B: q, __meta: {2, 2}}.
C4_Witness ==
    /\ op = "getValues" /\ ~err /\ ~pre.values.loaded
    /\ Table = <<Header, <<"p", "q">>>>
    /\ ret[1] = [hasMeta |-> TRUE, row |-> 2, cols |-> 2,
                 keys |-> <<"A", "B">>, vals |-> <<"p", "q">>]

(***************************************************************************)
(* C5: getValues()/getRows() read the data block from the service only     *)
(* when the row cache is absent; a loaded cache, the empty one included,   *)
(* is returned as it is, and only updateRows, deleteRows and clearCache    *)
(* drop it.                                                                *)
(***************************************************************************)
C5_OneReadPerLoad ==
    /\ (op \in {"getValues", "getRows"} /\ ~err)
          => /\ DataReads(calls) = IF pre.values.loaded THEN 0 ELSE 1
             /\ _sheetValues.loaded
             /\ op = "getValues" => ret = _sheetValues.rows
    /\ (pre.values.loaded /\ op \notin {"updateRows", "deleteRows", "clearCache"})
          => _sheetValues = pre.values

\* A call answered from a loaded cache that is empty.
C5_Witness ==
    /\ op = "getValues" /\ ~err
    /\ pre.values.loaded /\ Len(pre.values.rows) = 0
    /\ DataReads(calls) = 0

(***************************************************************************)
(* C6: getRows() returns the cached records the predicate holds of, in     *)
(* cache order (all of them when no predicate is set) and leaves a loaded  *)
(* cache as it was.                                                        *)
(***************************************************************************)
C6_GetRowsFilters ==
    (op = "getRows" /\ ~err)
        => /\ ret = SelectSeq(_sheetValues.rows,
                              LAMBDA row : whereFn.kind = "none" \/ Test(whereFn, row))
           /\ pre.values.loaded => _sheetValues = pre.values

\* getRows on a loaded cache returned some of its records and left others out.
C6_Witness ==
    /\ op = "getRows" /\ ~err
    /\ whereFn.kind = "field"
    /\ pre.values.loaded
    /\ Len(ret) >= 2
    /\ Len(ret) < Len(_sheetValues.rows) - 1

(***************************************************************************)
(* C7: an updateRows() or deleteRows() that completes ends with the row    *)
(* cache absent and the heading list empty, after exactly one flush, the   *)
(* last service call it makes; a getValues() that finds the cache absent   *)
(* reads the table again.                                                  *)
(***************************************************************************)
C7_BatchInvalidates ==
    /\ (op \in {"updateRows", "deleteRows"} /\ ~err)
          => /\ ~_sheetValues.loaded
             /\ _sheetHeadings = <<>>
             /\ Len(CallsOf(calls, "flush")) = 1
             /\ calls[Len(calls)].fn = "flush"
    /\ (op = "getValues" /\ ~err /\ ~pre.values.loaded)
          => DataReads(calls) = 1 /\ ret = LoadOf(sheets)

\* A batch that matched no row: nothing written or deleted, one flush.
C7_Witness ==
    /\ op \in {"updateRows", "deleteRows"} /\ ~err
    /\ Len(Table) >= 2
    /\ CallsOf(calls, "setValues") = <<>> /\ CallsOf(calls, "deleteCells") = <<>>
    /\ Len(CallsOf(calls, "flush")) = 1

(***************************************************************************)
(* C8: insertRows() invalidates the row cache and the heading list and     *)
(* flushes before it returns.                                              *)
(***************************************************************************)
C8_InsertInvalidates ==
    (op = "insertRows" /\ ~err)
        => /\ ~_sheetValues.loaded
           /\ _sheetHeadings = <<>>
           /\ Len(CallsOf(calls, "flush")) = 1

(***************************************************************************)
(* C9: insertRows(newRows) appends one row per record, in input order,     *)
(* after the last row; the cell under a heading is the record's value for  *)
(* it, or the empty string when the key is missing or the value falsy; the *)
(* rows that were there are unchanged.                                     *)
(***************************************************************************)
C9_InsertAppends ==
    (op = "insertRows" /\ ~err)
        => LET t == PreTable
               newRows == arg.newRows
           IN  /\ Len(Table) = Len(t) + Len(newRows)
               /\ SubSeq(Table, 1, Len(t)) = t
               /\ \A k \in 1..Len(newRows) : \A c \in 1..Len(t[1]) :
                     Table[Len(t) + k][c] =
                        IF /\ HasKey(newRows[k], t[1][c])
                           /\ GetField(newRows[k], t[1][c]) \notin {Zero, Blank, False}
                        THEN GetField(newRows[k], t[1][c])
                        ELSE Blank

\* Two records appended in order to a table with data: one with the value 0,
\* one with its keys in another order than the columns.
C9_Witness ==
    /\ op = "insertRows" /\ ~err
    /\ arg.newRows = <<Dict(<<"A", "B", "C">>, <<Zero, "q", "p">>),
                       Dict(<<"B", "A">>, <<"q", "p">>)>>
    /\ Len(PreTable) >= 2
    /\ Table = PreTable \o <<<<Blank, "q">>, <<"p", "q">>>>

(***************************************************************************)
(* C10: when updateFn returns undefined, or a record without __meta, for   *)
(* every matched row, updateRows() writes the rows back as they were:      *)
(* every cell of the table is the same after the call as before it.        *)
(***************************************************************************)
C10_NoOpUpdate ==
    (op = "updateRows" /\ ~err /\ arg.updateFn.kind \in {"undefined", "plain"})
        => sheets = pre.sheets

(***************************************************************************)
(* C11: a terminal operation called while the table name is unset or does  *)
(* not resolve to a table fails; it writes, appends and deletes nothing    *)
(* and leaves the row cache absent and the heading list empty.             *)
(***************************************************************************)
C11_UnresolvedFails ==
    (op \in Terminal /\ sheetName \notin DOMAIN sheets)
        => /\ err
           /\ Changes(calls) = <<>>
           /\ ~_sheetValues.loaded
           /\ _sheetHeadings = <<>>

(***************************************************************************)
(* C12: when insertRows(), updateRows() or deleteRows() returns, the table *)
(* reference and the heading list are back in the unloaded state; no other *)
(* operation unloads a table reference or a heading list that was loaded   *)
(* (clearCache() is the unloading itself).                                 *)
(***************************************************************************)
C12_ClearedOnMutation ==
    /\ (op \in Mutating /\ ~err) => _sheet = NoSheet /\ _sheetHeadings = <<>>
    /\ op \notin Mutating \cup {"clearCache"}
          => /\ pre.sheet # NoSheet => _sheet = pre.sheet
             /\ pre.headings # <<>> => _sheetHeadings = pre.headings

(***************************************************************************)
(* C13: when updateFn returns the row's record with changed values,        *)
(* updateRows() issues one write of a 1-row block per matched row, in      *)
(* cache order, at the row's recorded position; afterwards the row at that *)
(* position holds under each heading the returned value for it; the        *)
(* header, the unmatched rows and the number of rows are unchanged.        *)
(***************************************************************************)
C13_UpdateWritesReturned ==
    (op = "updateRows" /\ ~err /\ arg.updateFn.kind = "set")
        => LET writes == CallsOf(calls, "setValues")
               rows == PreMatched
               positions == {rows[k].row : k \in 1..Len(rows)}
           IN  /\ Len(writes) = Len(rows)
               /\ \A k \in 1..Len(writes) :
                     /\ writes[k].row = rows[k].row
                     /\ writes[k].n = 1
                     /\ Len(writes[k].vals) = rows[k].cols
               /\ Len(Table) = Len(PreTable)
               /\ Table[1] = PreTable[1]
               /\ \A k \in 1..Len(rows) : \A c \in 1..Len(Table[1]) :
                     /\ rows[k].row <= Len(Table)
                     /\ Table[rows[k].row][c]
                           = GetField(RowAfter(arg.updateFn, rows[k]), Table[1][c])
               /\ \A r \in 2..Len(PreTable) :
                     r \notin positions => Table[r] = PreTable[r]

\* The row cache a call that began in the state pre works on: the cache it
\* found, or the load of the table as it then was.
PreCache == IF pre.values.loaded THEN pre.values ELSE Loaded(LoadOf(pre.sheets))

\* The last call was a batch over intact records of which the service failed
\* the write or delete for matched row number arg.fail.
BatchFailed ==
    /\ op \in {"updateRows", "deleteRows"}
    /\ arg.fail > 0
    /\ pre.sheet # NoSheet \/ sheetName \in DOMAIN sheets
    /\ \A r \in 1..Len(PreCache.rows) : PreCache.rows[r].hasMeta
    /\ Len(PreMatched) >= arg.fail

(***************************************************************************)
(* C14: when the service fails the write or delete for the k-th matched    *)
(* row (k from 0) of updateRows() or deleteRows(), the call throws; the    *)
(* first k writes or deletes are applied and nothing else is changed;      *)
(* flush is not called; the row cache and the heading list stay loaded and *)
(* the cache still holds the records and positions loaded before the       *)
(* batch.                                                                  *)
(***************************************************************************)
C14_AbortKeepsCache ==
    BatchFailed
        => LET done == Changes(calls)
               rows == PreMatched
           IN  /\ err
               /\ Len(done) = arg.fail - 1
               /\ \A k \in 1..Len(done) :
                     done[k].row = rows[k].row - (IF op = "deleteRows" THEN k - 1 ELSE 0)
               /\ Table = Replay(PreTable, done)
               /\ CallsOf(calls, "flush") = <<>>
               /\ _sheetHeadings # <<>>
               /\ _sheetValues = PreCache

(***************************************************************************)
(* C16: whenever the row cache is loaded, the record at cache index r      *)
(* (from 0) carries __meta with row = r + 2 and cols = the column count;   *)
(* getRows() returns records in strictly ascending position order.  This   *)
(* holds after batches aborted by a failure of the service too.            *)
(***************************************************************************)
C16_CachePositions ==
    /\ _sheetValues.loaded
          => \A r \in 0..(Len(_sheetValues.rows) - 1) :
                /\ _sheetValues.rows[r + 1].hasMeta
                /\ _sheetValues.rows[r + 1].row = r + 2
                /\ _sheetValues.rows[r + 1].cols = getLastColumn(Table)
    /\ (op = "getRows" /\ ~err)
          => \A j, k \in 1..Len(ret) : j < k => ret[j].row < ret[k].row

\* The table as the k-th change (from 1) of the last call found it.
TableAt(k) == Replay(PreTable, SubSeq(Changes(calls), 1, k - 1))

(***************************************************************************)
(* C15: a deleteRows() or updateRows() that finds the row cache loaded     *)
(* does not read the table again, whatever another client did to the table *)
(* since the load: it deletes, or writes, at the positions the cached      *)
(* records carry.  A state is reachable in which a row that does not       *)
(* satisfy the filter is deleted or overwritten.                           *)
(***************************************************************************)
C15_StalePositions ==
    (op \in {"deleteRows", "updateRows"} /\ ~err /\ pre.values.loaded)
        => LET rows == Filter(pre.values.rows, whereFn)
               matched == IF whereFn.kind = "none" THEN pre.values.rows ELSE rows
           IN  /\ DataReads(calls) = 0
               /\ Len(Changes(calls)) = Len(matched)
               /\ \A k \in 1..Len(matched) :
                     Changes(calls)[k].row =
                        matched[k].row - (IF op = "deleteRows" THEN k - 1 ELSE 0)

\* The filter is A = p; a row whose A is not p was deleted or overwritten.
C15_Witness ==
    /\ op \in {"deleteRows", "updateRows"} /\ ~err /\ pre.values.loaded
    /\ whereFn = FieldFn("A", "p")
    /\ \E k \in 1..Len(Changes(calls)) :
          /\ Changes(calls)[k].row <= Len(TableAt(k))
          /\ TableAt(k)[Changes(calls)[k].row][1] # "p"
          /\ TableAt(k + 1) # TableAt(k)

(***************************************************************************)
(* C17: where(g) replaces the stored predicate, whatever predicate f was   *)
(* stored before: getRows(), updateRows() and deleteRows() then select the *)
(* cached rows that satisfy g.  where() makes no call on the service and   *)
(* leaves a loaded cache as it is.                                         *)
(***************************************************************************)
C17_WhereOverwrites ==
    /\ op = "where"
          => /\ whereFn = arg.fn
             /\ calls = <<>>
             /\ sheets = pre.sheets /\ _sheetValues = pre.values
             /\ _sheetValues.loaded
                   => getRows(Machine).ret
                         = SelectSeq(_sheetValues.rows, LAMBDA row : Test(arg.fn, row))
    /\ (op \in {"updateRows", "deleteRows"} /\ ~err)
          => Len(Changes(calls))
                = Len(SelectSeq(PreCache.rows,
                                LAMBDA row : whereFn.kind = "none" \/ Test(whereFn, row)))

\* where(f) with f = positions 2 and 4, then where(g) with g = (A = p), on a
\* loaded cache: getRows gives the row at 3, which f rejects, and not the row
\* at 2, which f accepts.
C17_Witness ==
    /\ op = "where"
    /\ pre.whereFn = RowsFn({2, 4})
    /\ arg.fn = FieldFn("A", "p")
    /\ _sheetValues.loaded
    /\ Len(getRows(Machine).ret) >= 1
    /\ getRows(Machine).ret[1].row = 3

(***************************************************************************)
(* C18: select(columns) stores the projection list and changes nothing     *)
(* else, without a call on the service; with any projection list           *)
(* getHeadings() gives the whole header row, every record of getValues()   *)
(* and getRows() has every column, and every row that insertRows() or      *)
(* updateRows() writes has the full width of the table.                    *)
(***************************************************************************)
C18_SelectOnlyStores ==
    /\ op = "select"
          => /\ columnNames = IF arg.columns.isArray THEN arg.columns.names
                                ELSE <<arg.columns.name>>
             /\ calls = <<>>
             /\ sheets = pre.sheets /\ _sheet = pre.sheet
             /\ _sheetValues = pre.values /\ _sheetHeadings = pre.headings
             /\ whereFn = pre.whereFn /\ sheetName = pre.sheetName
    /\ op # "select" => columnNames = pre.columnNames
    /\ (op = "getHeadings" /\ ~err) => _sheetHeadings = Table[1]
    /\ (op \in {"getValues", "getRows"} /\ ~err)
          => \A i \in 1..Len(ret) : \A c \in 1..Len(Table[1]) :
                HasKey(ret[i], Table[1][c])
    /\ (op \in Mutating /\ ~err)
          => \A k \in 1..Len(Changes(calls)) :
                Changes(calls)[k].fn \in {"setValues", "appendRow"}
                    => Len(Changes(calls)[k].vals) = Len(Table[1])

\* After select('A'), getRows returned a record that has the column B too.
C18_Witness ==
    /\ op = "getRows" /\ ~err
    /\ columnNames = <<"A">>
    /\ Len(ret) >= 1
    /\ HasKey(ret[1], "B") /\ GetField(ret[1], "B") = "q"

(***************************************************************************)
(* C19: in a deleteRows() that began with a fresh cache, every delete      *)
(* targets a position >= 2 that holds, when the delete is issued, the      *)
(* cells of the matched row it is issued for; the running correction is at *)
(* most the row's recorded position minus 2; the header row stays.         *)
(***************************************************************************)
C19_DeletesHitMatchedRows ==
    (op = "deleteRows" /\ ~err /\ PreFresh)
        => LET dels == CallsOf(calls, "deleteCells")
               rows == PreMatched
           IN  /\ Len(dels) = Len(rows)
               /\ Table[1] = PreTable[1]
               /\ \A k \in 1..Len(dels) :
                     /\ dels[k].row >= 2
                     /\ k - 1 <= rows[k].row - 2
                     /\ RowCells(Replay(PreTable, SubSeq(dels, 1, k - 1)),
                                 dels[k].row, rows[k].cols) = rows[k].vals

\* Rows [p, q], ['', q], [p, q] and the filter A = p: the second delete goes
\* to position 3, where the third row then is.
C19_Witness ==
    /\ op = "deleteRows" /\ ~err /\ PreFresh
    /\ PreTable = <<Header, <<"p", "q">>, <<Blank, "q">>, <<"p", "q">>>>
    /\ whereFn = FieldFn("A", "p")
    /\ TargetRows(CallsOf(calls, "deleteCells")) = <<2, 3>>
    /\ Table = <<Header, <<Blank, "q">>>>

====
